---- MODULE Spec2Model ----
(***************************************************************************)
(* A model of drivers/pps/clients/pps-gpio.c: the PPS client that          *)
(* timestamps edges of a GPIO line and reports them to the PPS core.       *)
(*                                                                         *)
(* Three threads of control are modelled:                                  *)
(*   - the driver core, which runs pps_gpio_probe and pps_gpio_remove one  *)
(*     statement group at a time (pc) and releases device-managed          *)
(*     resources after a failed probe and after remove;                    *)
(*   - the interrupt context, which runs pps_gpio_irq_handler one          *)
(*     statement at a time (h_pc);                                         *)
(*   - the environment: the signal on the line, the clock, and the host    *)
(*     services (gpiolib, the IRQ core, the allocator, the PPS core),      *)
(*     whose outcomes are chosen nondeterministically.                     *)
(***************************************************************************)
EXTENDS Integers, Sequences, FiniteSets, TLC

VARIABLES
    of_node,        \* device-tree node of the device: NULL or [props, gpio]
    platform_data,  \* pdev->dev.platform_data: NULL or a pps_gpio_platform_data
    drvdata,        \* platform_get_drvdata(pdev): NULL or "data"
    data_mem,       \* the kzalloc'ed pps_gpio_device_data: "none", "allocated", "freed"
    data,           \* its fields: [irq, pps, pdata, mode]
    gpio_held,      \* gpiolib: the pin is requested
    line,           \* logic level of the pin: 0 or 1
    irq_action,     \* IRQ core: NULL or the registered [flags, dev_id, managed]
    irq_pending,    \* IRQ core: edge notifications [dir, n] not yet handled, oldest first
    pps_source,     \* PPS core: NULL or the registered source [mode, params]
    pc,             \* driver core: position in probe / remove
    probe_ret,      \* value returned by the last pps_gpio_probe
    remove_ret,     \* value returned by the last pps_gpio_remove
    r_data,         \* pps_gpio_remove's local `data`
    h_pc,           \* interrupt context: position in pps_gpio_irq_handler
    ts,             \* the handler's local `ts`
    rising_edge,    \* the handler's local `rising_edge`
    h_edge,         \* the transition that raised the notification being handled
    clock,          \* the time pps_get_ts reads
    hist,           \* one record per finished handler invocation of the session:
                    \* [n, dir, ts, level, kind, pub, uaf]
    sink,           \* events the PPS core accepted, in the order it got them:
                    \* [n, ts, event]
    irq_before,     \* number of registered handlers when the last probe started
    unreg_calls,    \* pps_unregister_source calls since the last probe started
    kfree_calls,    \* kfree(data) calls that released memory since the last probe started
    fault,          \* "none", or the memory fault the kernel has taken
    nremoves,       \* pps_gpio_remove calls since the last probe started
    nedges,         \* transitions of the line since the last probe started
    restart,        \* the probe under way or last run followed a successful
                    \* probe and one pps_gpio_remove that returned 0
    host_refused    \* a host call of that probe failed on a resource that was free

vars == <<of_node, platform_data, drvdata, data_mem, data, gpio_held, line,
          irq_action, irq_pending, pps_source, pc, probe_ret, remove_ret,
          r_data, h_pc, ts, rising_edge, h_edge, clock, hist, sink,
          irq_before, unreg_calls, kfree_calls, fault, nremoves, nedges,
          restart, host_refused>>

\* The variables a session consists of: configuration, registrations, memory.
session_vars == <<of_node, platform_data, drvdata, data_mem, data, gpio_held,
                  irq_action, pps_source, pc, probe_ret, remove_ret, r_data>>

\* The driver-core variables the interrupt context never writes.
core_vars == <<of_node, platform_data, drvdata, data_mem, data, gpio_held,
               irq_action, pps_source, pc, probe_ret, remove_ret, r_data,
               irq_before, unreg_calls, kfree_calls, nremoves,
               restart, host_refused>>

\* The interrupt-context variables the driver core never writes.
irq_vars == <<h_pc, ts, rising_edge, h_edge, hist, sink>>

----------------------------------------------------------------------------
\* Bounds of the model.
MaxEdges   == 3     \* transitions of the line in one session
MaxClock   == 1     \* ticks of the clock in one session
MaxRemoves == 2     \* calls of pps_gpio_remove after one probe

----------------------------------------------------------------------------
\* Values.
NULL    == [null |-> TRUE]   \* a null pointer to a structure the model holds by value
NullPtr == "NULL"            \* a null pointer the model holds by name
NoTs  == -1
NoVal == -1

PPS_GPIO_NAME     == "pps-gpio"
PPS_CAPTUREASSERT == "PPS_CAPTUREASSERT"
PPS_CAPTURECLEAR  == "PPS_CAPTURECLEAR"

IRQF_TRIGGER_RISING  == {"rising"}
IRQF_TRIGGER_FALLING == {"falling"}

\* The pin every configuration of the model names.
GpioPin == "gpio_pin"

\* Board-file configurations (struct pps_gpio_platform_data).
BoardPdata ==
    { [gpio_pin |-> GpioPin, gpio_label |-> "board",
       assert_falling_edge |-> afe, capture_clear |-> cc] :
      afe \in BOOLEAN, cc \in BOOLEAN }

\* Device-tree nodes matching "pps-gpio": any subset of these properties.
DtProps == {"assert-falling-edge", "capture-clear"}
DtNodes == { [props |-> p] : p \in SUBSET DtProps }

\* No notification: the value of h_edge while none has been handled.
NoEdge == [dir |-> "none", n |-> 0]

\* kzalloc: every field zero.
ZeroData == [irq |-> "0", pps |-> NullPtr, pdata |-> NullPtr, mode |-> {}]

Last(s) == s[Len(s)]

----------------------------------------------------------------------------
\* Pure functions of the driver.

\* Classify with the polarity test of the first branch inverted.
Classify_InvertedPolarity(level, pd) ==
    IF (level # 0 /\ pd.assert_falling_edge) \/
       (level = 0 /\ ~pd.assert_falling_edge)
    THEN PPS_CAPTUREASSERT
    ELSE IF pd.capture_clear /\
            ((level # 0 /\ pd.assert_falling_edge) \/
             (level = 0 /\ ~pd.assert_falling_edge))
         THEN PPS_CAPTURECLEAR
         ELSE "none"

\* pps_gpio_irq_handler, lines 66-72: the event the handler reports for the
\* level it read, "none" when it reports nothing.
Classify(level, pd) ==
    IF (level # 0 /\ ~pd.assert_falling_edge) \/
       (level = 0 /\ pd.assert_falling_edge)
    THEN PPS_CAPTUREASSERT
    ELSE IF pd.capture_clear /\
            ((level # 0 /\ pd.assert_falling_edge) \/
             (level = 0 /\ ~pd.assert_falling_edge))
         THEN PPS_CAPTURECLEAR
         ELSE "none"

\* get_irqf_trigger_flags without the capture_clear branch.
get_irqf_trigger_flags_PrimaryOnly(pd) ==
    IF pd.assert_falling_edge THEN IRQF_TRIGGER_FALLING
                              ELSE IRQF_TRIGGER_RISING

\* get_irqf_trigger_flags, lines 98-110.
get_irqf_trigger_flags(pd) ==
    LET flags == IF pd.assert_falling_edge THEN IRQF_TRIGGER_FALLING
                                           ELSE IRQF_TRIGGER_RISING
    IN  IF pd.capture_clear
        THEN flags \cup (IF (flags \cap IRQF_TRIGGER_RISING) # {}
                         THEN IRQF_TRIGGER_FALLING ELSE IRQF_TRIGGER_RISING)
        ELSE flags

\* of_get_pps_gpio_pdata reading capture_clear from a "capture-clear"
\* property of the node.
of_get_pps_gpio_pdata_ReadsClear(np, alloc_ok, gpio_ok) ==
    IF ~alloc_ok THEN NULL
    ELSE IF ~gpio_ok THEN NULL
    ELSE [gpio_pin |-> GpioPin, gpio_label |-> PPS_GPIO_NAME,
          assert_falling_edge |-> ("assert-falling-edge" \in np.props),
          capture_clear |-> ("capture-clear" \in np.props)]

\* of_get_pps_gpio_pdata, lines 119-143.  alloc_ok: devm_kzalloc returned
\* memory; gpio_ok: of_get_gpio returned a pin.  The memory is zeroed, and
\* only gpio_pin, gpio_label and assert_falling_edge are ever written.
of_get_pps_gpio_pdata(np, alloc_ok, gpio_ok) ==
    IF ~alloc_ok THEN NULL
    ELSE IF ~gpio_ok THEN NULL
    ELSE [gpio_pin |-> GpioPin, gpio_label |-> PPS_GPIO_NAME,
          assert_falling_edge |-> ("assert-falling-edge" \in np.props),
          capture_clear |-> FALSE]

\* InfoMode without the capture_clear branch.
InfoMode_NoClear(pd) ==
    {"PPS_CAPTUREASSERT", "PPS_OFFSETASSERT", "PPS_ECHOASSERT", "PPS_CANWAIT",
     "PPS_TSFMT_TSPEC"}

\* pps_gpio_probe, lines 194-198: the capabilities of the PPS source.
InfoMode(pd) ==
    {"PPS_CAPTUREASSERT", "PPS_OFFSETASSERT", "PPS_ECHOASSERT", "PPS_CANWAIT",
     "PPS_TSFMT_TSPEC"}
    \cup (IF pd.capture_clear
          THEN {"PPS_CAPTURECLEAR", "PPS_OFFSETCLEAR", "PPS_ECHOCLEAR"} ELSE {})

\* pps_gpio_probe, lines 204-206: the default parameters of the PPS source.
DefaultParams(pd) ==
    {"PPS_CAPTUREASSERT", "PPS_OFFSETASSERT"}
    \cup (IF pd.capture_clear
          THEN {"PPS_CAPTURECLEAR", "PPS_OFFSETCLEAR"} ELSE {})

\* The handler's statements with the level read before the clock.
NextHandlerPc_LevelFirst(p) ==
    CASE p = "entry"     -> "get_value"
      [] p = "get_value" -> "get_ts"
      [] p = "get_ts"    -> "branch"
      [] p = "branch"    -> "idle"

\* The order of the handler's statements, lines 60-74.
NextHandlerPc(p) ==
    CASE p = "entry"     -> "get_ts"
      [] p = "get_ts"    -> "get_value"
      [] p = "get_value" -> "branch"
      [] p = "branch"    -> "idle"

----------------------------------------------------------------------------
Init ==
    /\ \E src \in {"none", "board", "of"} :
         /\ of_node \in (IF src = "of" THEN DtNodes ELSE {NULL})
         /\ platform_data \in (IF src = "board" THEN BoardPdata ELSE {NULL})
    /\ drvdata = NullPtr
    /\ data_mem = "none"
    /\ data = ZeroData
    /\ gpio_held = FALSE
    /\ line \in {0, 1}
    /\ irq_action = NULL
    /\ irq_pending = <<>>
    /\ pps_source = NULL
    /\ pc = "unbound"
    /\ probe_ret = "none"
    /\ remove_ret = "none"
    /\ r_data = NullPtr
    /\ h_pc = "idle"
    /\ ts = NoTs
    /\ rising_edge = NoVal
    /\ h_edge = NoEdge
    /\ clock = 0
    /\ hist = <<>>
    /\ sink = <<>>
    /\ irq_before = 0
    /\ unreg_calls = 0
    /\ kfree_calls = 0
    /\ fault = "none"
    /\ nremoves = 0
    /\ nedges = 0
    /\ restart = FALSE
    /\ host_refused = FALSE

----------------------------------------------------------------------------
\* pps_gpio_probe, one action per statement group.  A host call that can
\* fail is given both outcomes.

\* pps_gpio_probe returns the error e: the driver core releases the
\* device-managed resources of the device next (ProbeFailed).
ReturnError(e) ==
    /\ pc' = "p_failed"
    /\ probe_ret' = e

\* The driver core calls pps_gpio_probe on an unbound device.  The records
\* kept of the previous session's notifications start afresh.
ProbeStart ==
    /\ pc = "unbound"
    /\ nremoves' = 0
    /\ pc' = "p_match"
    /\ probe_ret' = "none"
    /\ remove_ret' = "none"
    /\ irq_before' = (IF irq_action = NULL THEN 0 ELSE 1)
    /\ unreg_calls' = 0
    /\ kfree_calls' = 0
    /\ hist' = <<>>
    /\ sink' = <<>>
    /\ ts' = NoTs
    /\ rising_edge' = NoVal
    /\ h_edge' = NoEdge
    /\ clock' = 0
    /\ nedges' = 0
    /\ restart' = (probe_ret = "0" /\ remove_ret = "0" /\ nremoves = 1)
    /\ host_refused' = FALSE
    /\ UNCHANGED <<of_node, platform_data, drvdata, data_mem, data, gpio_held,
                   line, irq_action, irq_pending, pps_source, r_data, h_pc,
                   fault>>

\* P_GetPdata with the test for a missing configuration made only after
\* the GPIO has been requested.
P_GetPdata_LateCheck ==
    /\ pc = "p_match"
    /\ \E alloc_ok \in BOOLEAN, gpio_ok \in BOOLEAN :
         /\ host_refused' =
              (host_refused \/ (of_node # NULL /\ ~(alloc_ok /\ gpio_ok)))
         /\ LET pd == IF of_node # NULL
                      THEN of_get_pps_gpio_pdata(of_node, alloc_ok, gpio_ok)
                      ELSE platform_data
            IN  /\ platform_data' = pd
                /\ IF pd = NULL
                   THEN gpio_held' = TRUE /\ ReturnError("ENODEV")
                   ELSE /\ pc' = "p_gpio_request"
                        /\ UNCHANGED <<probe_ret, gpio_held>>
    /\ UNCHANGED <<of_node, drvdata, data_mem, data, line,
                   irq_action, irq_pending, pps_source, remove_ret, r_data,
                   clock, irq_before, unreg_calls, kfree_calls, fault,
                   nremoves, nedges>>
    /\ UNCHANGED irq_vars
    /\ UNCHANGED restart

\* Lines 162-168: take the configuration from the device tree when the
\* device matches, else from the board file; none is -ENODEV.
P_GetPdata ==
    /\ pc = "p_match"
    /\ \E alloc_ok \in BOOLEAN, gpio_ok \in BOOLEAN :
         /\ host_refused' =
              (host_refused \/ (of_node # NULL /\ ~(alloc_ok /\ gpio_ok)))
         /\ LET pd == IF of_node # NULL
                      THEN of_get_pps_gpio_pdata(of_node, alloc_ok, gpio_ok)
                      ELSE platform_data
            IN  /\ platform_data' = pd
                /\ IF pd = NULL
                   THEN ReturnError("ENODEV")
                   ELSE pc' = "p_gpio_request" /\ UNCHANGED probe_ret
    /\ UNCHANGED <<of_node, drvdata, data_mem, data, gpio_held, line,
                   irq_action, irq_pending, pps_source, remove_ret, r_data,
                   clock, irq_before, unreg_calls, kfree_calls, fault,
                   nremoves, nedges>>
    /\ UNCHANGED irq_vars
    /\ UNCHANGED restart

\* pps_gpio_setup, lines 82-86: gpio_request.  gpiolib refuses a pin that
\* is already requested and may refuse a free one.
P_GpioRequest ==
    /\ pc = "p_gpio_request"
    /\ \E ok \in BOOLEAN :
         /\ host_refused' = (host_refused \/ (~ok /\ ~gpio_held))
         /\ IF ok /\ ~gpio_held
            THEN gpio_held' = TRUE /\ pc' = "p_direction" /\ UNCHANGED probe_ret
            ELSE UNCHANGED gpio_held /\ ReturnError("EINVAL")
    /\ UNCHANGED <<of_node, platform_data, drvdata, data_mem, data, line,
                   irq_action, irq_pending, pps_source, remove_ret, r_data,
                   clock, irq_before, unreg_calls, kfree_calls, fault,
                   nremoves, nedges>>
    /\ UNCHANGED irq_vars
    /\ UNCHANGED restart

\* pps_gpio_setup, lines 88-95: gpio_direction_input; on failure the pin
\* is freed.
P_DirectionInput ==
    /\ pc = "p_direction"
    /\ \E ok \in BOOLEAN :
         /\ host_refused' = (host_refused \/ ~ok)
         /\ IF ok
            THEN pc' = "p_to_irq" /\ UNCHANGED <<gpio_held, probe_ret>>
            ELSE gpio_held' = FALSE /\ ReturnError("EINVAL")
    /\ UNCHANGED <<of_node, platform_data, drvdata, data_mem, data, line,
                   irq_action, irq_pending, pps_source, remove_ret, r_data,
                   clock, irq_before, unreg_calls, kfree_calls, fault,
                   nremoves, nedges>>
    /\ UNCHANGED irq_vars
    /\ UNCHANGED restart

\* Lines 181-185: gpio_to_irq.
P_GpioToIrq ==
    /\ pc = "p_to_irq"
    /\ \E ok \in BOOLEAN :
         /\ host_refused' = (host_refused \/ ~ok)
         /\ IF ok
            THEN pc' = "p_kzalloc" /\ UNCHANGED probe_ret
            ELSE ReturnError("EINVAL")
    /\ UNCHANGED <<of_node, platform_data, drvdata, data_mem, data, gpio_held,
                   line, irq_action, irq_pending, pps_source, remove_ret,
                   r_data, clock, irq_before, unreg_calls, kfree_calls, fault,
                   nremoves, nedges>>
    /\ UNCHANGED irq_vars
    /\ UNCHANGED restart

\* Lines 188-201: kzalloc the session data and fill in data->info.
P_Kzalloc ==
    /\ pc = "p_kzalloc"
    /\ \E ok \in BOOLEAN :
         /\ host_refused' = (host_refused \/ ~ok)
         /\ IF ok
            THEN /\ data_mem' = "allocated"
                 /\ data' = [ZeroData EXCEPT !.mode = InfoMode(platform_data)]
                 /\ pc' = "p_register"
                 /\ UNCHANGED probe_ret
            ELSE /\ UNCHANGED <<data_mem, data>>
                 /\ ReturnError("ENOMEM")
    /\ UNCHANGED <<of_node, platform_data, drvdata, gpio_held, line,
                   irq_action, irq_pending, pps_source, remove_ret, r_data,
                   clock, irq_before, unreg_calls, kfree_calls, fault,
                   nremoves, nedges>>
    /\ UNCHANGED irq_vars
    /\ UNCHANGED restart

\* Lines 204-212: pps_register_source; on failure the session data is freed.
P_RegisterSource ==
    /\ pc = "p_register"
    /\ \E ok \in BOOLEAN :
         /\ host_refused' = (host_refused \/ ~ok)
         /\ IF ok
            THEN /\ pps_source' = [mode |-> data.mode,
                                   params |-> DefaultParams(platform_data)]
                 /\ data' = [data EXCEPT !.pps = "pps"]
                 /\ pc' = "p_fields"
                 /\ UNCHANGED <<data_mem, probe_ret, kfree_calls>>
            ELSE /\ data_mem' = "freed"
                 /\ kfree_calls' = kfree_calls + 1
                 /\ UNCHANGED <<pps_source, data>>
                 /\ ReturnError("EINVAL")
    /\ UNCHANGED <<of_node, platform_data, drvdata, gpio_held, line,
                   irq_action, irq_pending, remove_ret, r_data, clock,
                   irq_before, unreg_calls, fault, nremoves, nedges>>
    /\ UNCHANGED irq_vars
    /\ UNCHANGED restart

\* P_SetFields with data->pdata left unset.
P_SetFields_NoPdata ==
    /\ pc = "p_fields"
    /\ data' = [data EXCEPT !.irq = "irq"]
    /\ pc' = "p_request_irq"
    /\ UNCHANGED <<of_node, platform_data, drvdata, data_mem, gpio_held, line,
                   irq_action, irq_pending, pps_source, probe_ret, remove_ret,
                   r_data, clock, irq_before, unreg_calls, kfree_calls, fault,
                   nremoves, nedges>>
    /\ UNCHANGED irq_vars
    /\ UNCHANGED <<restart, host_refused>>

\* Lines 214-215: data->irq and data->pdata.
P_SetFields ==
    /\ pc = "p_fields"
    /\ data' = [data EXCEPT !.irq = "irq", !.pdata = "pdata"]
    /\ pc' = "p_request_irq"
    /\ UNCHANGED <<of_node, platform_data, drvdata, data_mem, gpio_held, line,
                   irq_action, irq_pending, pps_source, probe_ret, remove_ret,
                   r_data, clock, irq_before, unreg_calls, kfree_calls, fault,
                   nremoves, nedges>>
    /\ UNCHANGED irq_vars
    /\ UNCHANGED <<restart, host_refused>>

\* P_RequestIrq with request_irq in place of devm_request_irq and the test
\* of its result inverted: the error path runs with the handler registered.
P_RequestIrq_Unmanaged ==
    /\ pc = "p_request_irq"
    /\ \E ok \in BOOLEAN :
         /\ host_refused' = (host_refused \/ ~ok)
         /\ IF ~ok
            THEN /\ pc' = "p_drvdata"
                 /\ UNCHANGED <<irq_action, pps_source, data_mem, probe_ret,
                                unreg_calls, kfree_calls>>
            ELSE /\ irq_action' = [flags |-> get_irqf_trigger_flags(platform_data),
                                   dev_id |-> "data", managed |-> FALSE]
                 /\ pps_source' = NULL
                 /\ unreg_calls' = unreg_calls + 1
                 /\ data_mem' = "freed"
                 /\ kfree_calls' = kfree_calls + 1
                 /\ ReturnError("EINVAL")
    /\ UNCHANGED <<of_node, platform_data, drvdata, data, gpio_held, line,
                   irq_pending, remove_ret, r_data, clock, irq_before,
                   fault, nremoves, nedges>>
    /\ UNCHANGED irq_vars
    /\ UNCHANGED restart

\* Lines 218-225: devm_request_irq with the flags of the configuration; on
\* failure the PPS source is unregistered and the session data freed.
P_RequestIrq ==
    /\ pc = "p_request_irq"
    /\ \E ok \in BOOLEAN :
         /\ host_refused' = (host_refused \/ ~ok)
         /\ IF ok
            THEN /\ irq_action' = [flags |-> get_irqf_trigger_flags(platform_data),
                                   dev_id |-> "data", managed |-> TRUE]
                 /\ pc' = "p_drvdata"
                 /\ UNCHANGED <<pps_source, data_mem, probe_ret, unreg_calls,
                                kfree_calls>>
            ELSE /\ pps_source' = NULL
                 /\ unreg_calls' = unreg_calls + 1
                 /\ data_mem' = "freed"
                 /\ kfree_calls' = kfree_calls + 1
                 /\ UNCHANGED irq_action
                 /\ ReturnError("EINVAL")
    /\ UNCHANGED <<of_node, platform_data, drvdata, data, gpio_held, line,
                   irq_pending, remove_ret, r_data, clock, irq_before,
                   fault, nremoves, nedges>>
    /\ UNCHANGED irq_vars
    /\ UNCHANGED restart

\* Lines 227-230: platform_set_drvdata and return 0.
P_Finish ==
    /\ pc = "p_drvdata"
    /\ drvdata' = "data"
    /\ probe_ret' = "0"
    /\ pc' = "bound"
    /\ UNCHANGED <<of_node, platform_data, data_mem, data, gpio_held, line,
                   irq_action, irq_pending, pps_source, remove_ret, r_data,
                   clock, irq_before, unreg_calls, kfree_calls, fault,
                   nremoves, nedges>>
    /\ UNCHANGED irq_vars
    /\ UNCHANGED <<restart, host_refused>>

----------------------------------------------------------------------------
\* The driver core around probe and remove.

\* devres_release_all: free_irq for a handler requested with
\* devm_request_irq.  free_irq waits for a running handler to return.
DevresReleaseAll ==
    /\ irq_action # NULL => h_pc = "idle"
    /\ irq_action' = IF irq_action # NULL /\ irq_action.managed
                     THEN NULL ELSE irq_action
    /\ irq_pending' = IF irq_action # NULL /\ irq_action.managed
                      THEN <<>> ELSE irq_pending

\* After pps_gpio_probe returned an error the driver core releases the
\* device-managed resources and leaves the device unbound.
ProbeFailed ==
    /\ pc = "p_failed"
    /\ DevresReleaseAll
    /\ pc' = "unbound"
    /\ UNCHANGED <<of_node, platform_data, drvdata, data_mem, data, gpio_held,
                   line, pps_source, probe_ret, remove_ret, r_data, clock,
                   irq_before, unreg_calls, kfree_calls, fault, nremoves, nedges>>
    /\ UNCHANGED irq_vars
    /\ UNCHANGED <<restart, host_refused>>

\* After pps_gpio_remove returned the driver core releases the
\* device-managed resources and leaves the device unbound.
DevresRelease ==
    /\ pc = "r_released"
    /\ DevresReleaseAll
    /\ pc' = "unbound"
    /\ UNCHANGED <<of_node, platform_data, drvdata, data_mem, data, gpio_held,
                   line, pps_source, probe_ret, remove_ret, r_data, clock,
                   irq_before, unreg_calls, kfree_calls, fault, nremoves, nedges>>
    /\ UNCHANGED irq_vars
    /\ UNCHANGED <<restart, host_refused>>

----------------------------------------------------------------------------
\* pps_gpio_remove, one action per statement.

\* Lines 235-237: read the driver data and clear it.  Called on a bound
\* device, and once more on a device that has just been removed.
RemoveStart ==
    /\ pc = "bound" \/ (pc = "unbound" /\ remove_ret = "0")
    /\ nremoves < MaxRemoves
    /\ nremoves' = nremoves + 1
    /\ r_data' = drvdata
    /\ drvdata' = NullPtr
    /\ remove_ret' = "none"
    /\ pc' = "r_unregister"
    /\ UNCHANGED <<of_node, platform_data, data_mem, data, gpio_held, line,
                   irq_action, irq_pending, pps_source, probe_ret, clock,
                   irq_before, unreg_calls, kfree_calls, fault, nedges>>
    /\ UNCHANGED irq_vars
    /\ UNCHANGED <<restart, host_refused>>

\* Line 238: pps_unregister_source(data->pps).  With data == NULL the read
\* of data->pps is a null-pointer dereference: the kernel oopses and the
\* call never returns, or the read yields some value and the PPS core is
\* handed it.
R_Unregister ==
    /\ pc = "r_unregister"
    /\ \E outcome \in {"oops", "garbage"} :
         IF r_data = NullPtr
         THEN /\ fault' = "null_deref"
              /\ pc' = IF outcome = "oops" THEN "oops" ELSE "r_kfree"
              /\ unreg_calls' = IF outcome = "oops" THEN unreg_calls
                                                    ELSE unreg_calls + 1
              /\ UNCHANGED pps_source
         ELSE /\ pps_source' = NULL
              /\ unreg_calls' = unreg_calls + 1
              /\ pc' = "r_kfree"
              /\ UNCHANGED fault
    /\ UNCHANGED <<of_node, platform_data, drvdata, data_mem, data, gpio_held,
                   line, irq_action, irq_pending, probe_ret, remove_ret,
                   r_data, clock, irq_before, kfree_calls, nremoves,
                   nedges>>
    /\ UNCHANGED irq_vars
    /\ UNCHANGED <<restart, host_refused>>

\* Lines 239-241: kfree(data) and return 0.  kfree(NULL) does nothing.
R_Kfree ==
    /\ pc = "r_kfree"
    /\ IF r_data = NullPtr
       THEN UNCHANGED <<data_mem, kfree_calls>>
       ELSE data_mem' = "freed" /\ kfree_calls' = kfree_calls + 1
    /\ remove_ret' = "0"
    /\ pc' = "r_released"
    /\ UNCHANGED <<of_node, platform_data, drvdata, data, gpio_held, line,
                   irq_action, irq_pending, pps_source, probe_ret, r_data,
                   clock, irq_before, unreg_calls, fault, nremoves,
                   nedges>>
    /\ UNCHANGED irq_vars
    /\ UNCHANGED <<restart, host_refused>>

----------------------------------------------------------------------------
\* The environment: the signal, the clock and the IRQ core.

\* The line changes level.  The IRQ core notes a notification, numbered in
\* arrival order, when a handler is registered for that direction.
\* Transitions with no handler registered leave no trace but the level,
\* which Init leaves open.
Edge ==
    /\ irq_action # NULL
    /\ nedges < MaxEdges
    /\ nedges' = nedges + 1
    /\ line' = 1 - line
    /\ LET dir == IF line = 0 THEN "rising" ELSE "falling"
       IN  irq_pending' = IF irq_action # NULL /\ dir \in irq_action.flags
                          THEN Append(irq_pending,
                                      [dir |-> dir, n |-> nedges + 1])
                          ELSE irq_pending
    /\ UNCHANGED <<clock, fault>>
    /\ UNCHANGED core_vars
    /\ UNCHANGED irq_vars

\* Time passes.  Only the handler reads the clock, and only differences of
\* its readings matter, so only the time that passes while a notification
\* is outstanding is modelled.
Tick ==
    /\ irq_action # NULL
    /\ h_pc # "idle" \/ irq_pending # <<>>
    /\ clock < MaxClock
    /\ clock' = clock + 1
    /\ UNCHANGED <<line, irq_pending, fault, nedges>>
    /\ UNCHANGED core_vars
    /\ UNCHANGED irq_vars

\* The IRQ core calls the registered handler for the oldest notification;
\* invocations for one IRQ never overlap.
IrqDispatch ==
    /\ irq_action # NULL
    /\ irq_pending # <<>>
    /\ h_pc = "idle"
    /\ h_edge' = Head(irq_pending)
    /\ irq_pending' = Tail(irq_pending)
    /\ h_pc' = NextHandlerPc("entry")
    /\ ts' = NoTs
    /\ rising_edge' = NoVal
    /\ UNCHANGED <<hist, sink, line, clock, fault, nedges>>
    /\ UNCHANGED core_vars

\* What pps_event can do with an event for a registered source.
PublishOutcomes == {"ok", "fail"}

----------------------------------------------------------------------------
\* pps_gpio_irq_handler, one action per statement.

\* info->pdata can be read: the session data is allocated and its pdata set.
InfoValid == data_mem = "allocated" /\ data.pdata # NullPtr

\* Line 61: pps_get_ts(&ts).
H_GetTs ==
    /\ h_pc = "get_ts"
    /\ ts' = clock
    /\ h_pc' = NextHandlerPc("get_ts")
    /\ UNCHANGED <<rising_edge, h_edge, hist, sink, line, irq_pending, clock,
                   fault, nedges>>
    /\ UNCHANGED core_vars

\* H_GetValue with the value of the pin negated.
H_GetValue_Negated ==
    /\ h_pc = "get_value"
    /\ \E v \in (IF InfoValid THEN {1 - line} ELSE {0, 1}) : rising_edge' = v
    /\ fault' = IF InfoValid THEN fault
                ELSE IF data_mem = "allocated" THEN "null_deref"
                ELSE "use_after_free"
    /\ h_pc' = NextHandlerPc("get_value")
    /\ UNCHANGED <<ts, h_edge, hist, sink, line, irq_pending, clock, nedges>>
    /\ UNCHANGED core_vars

\* Lines 63-65: rising_edge = gpio_get_value(info->pdata->gpio_pin).  Read
\* through released or unset session data, the pin and so the value are
\* whatever the memory holds.
H_GetValue ==
    /\ h_pc = "get_value"
    /\ \E v \in (IF InfoValid THEN {line} ELSE {0, 1}) : rising_edge' = v
    /\ fault' = IF InfoValid THEN fault
                ELSE IF data_mem = "allocated" THEN "null_deref"
                ELSE "use_after_free"
    /\ h_pc' = NextHandlerPc("get_value")
    /\ UNCHANGED <<ts, h_edge, hist, sink, line, irq_pending, clock, nedges>>
    /\ UNCHANGED core_vars

\* The kinds of event the handler can come to report: the one Classify
\* gives for the level read, or any at all when the configuration is read
\* from released memory.
BranchKinds ==
    IF InfoValid THEN {Classify(rising_edge, platform_data)}
    ELSE {PPS_CAPTUREASSERT, PPS_CAPTURECLEAR, "none"}

\* What becomes of the handler's pps_event call: nothing is called for
\* "none"; a registered source takes the event or fails (outcome); an
\* event for a source that is no longer registered goes to released memory.
PubOf(kind, outcome) ==
    IF kind = "none" THEN "none"
    ELSE IF InfoValid /\ pps_source # NULL THEN outcome
    ELSE "released"

\* The record kept of the invocation that now returns.
HistRecord(kind, pub) ==
    [n |-> h_edge.n, dir |-> h_edge.dir, ts |-> ts, level |-> rising_edge,
     kind |-> kind, pub |-> pub, uaf |-> (~InfoValid \/ pub = "released")]

\* The event as the PPS core receives it: pps_event(info->pps, &ts, kind, NULL).
SinkEvent(kind) == [n |-> h_edge.n, ts |-> ts, event |-> kind]

\* H_Branch with the second test not an else-branch and its polarity test
\* lost: an Assert edge under capture_clear is reported twice.
H_Branch_FallThrough ==
    /\ h_pc = "branch"
    /\ \E kind \in BranchKinds, outcome \in PublishOutcomes :
         LET pub == PubOf(kind, outcome)
             twice == InfoValid /\ kind = PPS_CAPTUREASSERT
                      /\ platform_data.capture_clear
         IN  /\ hist' = Append(hist, HistRecord(kind, pub))
             /\ sink' = IF pub = "ok"
                        THEN (IF twice
                              THEN sink \o <<SinkEvent(kind),
                                             SinkEvent(PPS_CAPTURECLEAR)>>
                              ELSE Append(sink, SinkEvent(kind)))
                        ELSE sink
             /\ fault' = IF ~InfoValid \/ pub = "released"
                         THEN "use_after_free" ELSE fault
    /\ h_pc' = NextHandlerPc("branch")
    /\ UNCHANGED <<ts, rising_edge, h_edge, line, irq_pending, clock, nedges>>
    /\ UNCHANGED core_vars

\* H_Branch with a handler that gives up its IRQ when the PPS core does
\* not take the event.
H_Branch_StopOnFail ==
    /\ h_pc = "branch"
    /\ \E kind \in BranchKinds, outcome \in PublishOutcomes :
         LET pub == PubOf(kind, outcome)
         IN  /\ hist' = Append(hist, HistRecord(kind, pub))
             /\ sink' = IF pub = "ok" THEN Append(sink, SinkEvent(kind))
                        ELSE sink
             /\ fault' = IF ~InfoValid \/ pub = "released"
                         THEN "use_after_free" ELSE fault
             /\ irq_action' = IF pub = "fail" THEN NULL ELSE irq_action
             /\ irq_pending' = IF pub = "fail" THEN <<>> ELSE irq_pending
    /\ h_pc' = NextHandlerPc("branch")
    /\ UNCHANGED <<ts, rising_edge, h_edge, line, clock, nedges>>
    /\ UNCHANGED <<of_node, platform_data, drvdata, data_mem, data, gpio_held,
                   pps_source, pc, probe_ret, remove_ret, r_data, irq_before,
                   unreg_calls, kfree_calls, nremoves, restart, host_refused>>

\* H_Branch with a handler that keeps the expected edge as state: after
\* each event it reports, it swaps the polarity in the configuration.
H_Branch_TogglesPolarity ==
    /\ h_pc = "branch"
    /\ \E kind \in BranchKinds, outcome \in PublishOutcomes :
         LET pub == PubOf(kind, outcome)
         IN  /\ hist' = Append(hist, HistRecord(kind, pub))
             /\ sink' = IF pub = "ok" THEN Append(sink, SinkEvent(kind))
                        ELSE sink
             /\ fault' = IF ~InfoValid \/ pub = "released"
                         THEN "use_after_free" ELSE fault
             /\ platform_data' =
                   IF InfoValid /\ kind # "none"
                   THEN [platform_data EXCEPT !.assert_falling_edge = ~@]
                   ELSE platform_data
    /\ h_pc' = NextHandlerPc("branch")
    /\ UNCHANGED <<ts, rising_edge, h_edge, line, irq_pending, clock, nedges>>
    /\ UNCHANGED <<of_node, drvdata, data_mem, data, gpio_held, irq_action,
                   pps_source, pc, probe_ret, remove_ret, r_data, irq_before,
                   unreg_calls, kfree_calls, nremoves, restart, host_refused>>

\* H_Branch with a handler that tries again until the PPS core takes the
\* event.
H_Branch_RetryOnFail ==
    /\ h_pc = "branch"
    /\ \E kind \in BranchKinds, outcome \in PublishOutcomes :
         LET pub == PubOf(kind, outcome)
         IN  /\ hist' = Append(hist, HistRecord(kind, pub))
             /\ sink' = IF pub = "ok" THEN Append(sink, SinkEvent(kind))
                        ELSE sink
             /\ fault' = IF ~InfoValid \/ pub = "released"
                         THEN "use_after_free" ELSE fault
             /\ h_pc' = IF pub = "fail" THEN "branch"
                        ELSE NextHandlerPc("branch")
    /\ UNCHANGED <<ts, rising_edge, h_edge, line, irq_pending, clock, nedges>>
    /\ UNCHANGED core_vars

\* Lines 66-74: report the event and return IRQ_HANDLED.  pps_event
\* returns nothing, so the handler cannot tell whether the PPS core took
\* the event.
H_Branch ==
    /\ h_pc = "branch"
    /\ \E kind \in BranchKinds, outcome \in PublishOutcomes :
         LET pub == PubOf(kind, outcome)
         IN  /\ hist' = Append(hist, HistRecord(kind, pub))
             /\ sink' = IF pub = "ok" THEN Append(sink, SinkEvent(kind))
                        ELSE sink
             /\ fault' = IF ~InfoValid \/ pub = "released"
                         THEN "use_after_free" ELSE fault
    /\ h_pc' = NextHandlerPc("branch")
    /\ UNCHANGED <<ts, rising_edge, h_edge, line, irq_pending, clock, nedges>>
    /\ UNCHANGED core_vars

----------------------------------------------------------------------------
Next ==
    \/ ProbeStart \/ P_GetPdata \/ P_GpioRequest \/ P_DirectionInput
    \/ P_GpioToIrq \/ P_Kzalloc \/ P_RegisterSource \/ P_SetFields
    \/ P_RequestIrq \/ P_Finish \/ ProbeFailed
    \/ RemoveStart \/ R_Unregister \/ R_Kfree \/ DevresRelease
    \/ Edge \/ Tick \/ IrqDispatch
    \/ H_GetTs \/ H_GetValue \/ H_Branch

Spec == Init /\ [][Next]_vars

\* The handler is straight-line code run in interrupt context: it takes no
\* lock, waits for nothing and has no loop, so a statement that can run
\* does run.
FairSpec ==
    Spec /\ WF_vars(H_GetTs) /\ WF_vars(H_GetValue) /\ WF_vars(H_Branch)

----------------------------------------------------------------------------
\* Vocabulary of the properties.

\* The handler called pps_event in the invocation recorded as r.
Published(r) == r.pub # "none"

\* The invocation recorded as r ran against live session data and a
\* registered PPS source.
Sound(r) == ~r.uaf

\* The classification table: what is to be reported for a level (1 is
\* High, 0 is Low) under a configuration.
TableKind(afe, cc, level) ==
    IF ~afe
    THEN (IF level = 1 THEN "Assert" ELSE IF cc THEN "Clear" ELSE "Ignored")
    ELSE (IF level = 0 THEN "Assert" ELSE IF cc THEN "Clear" ELSE "Ignored")

\* The table's name for what the invocation recorded as r did.
Outcome(r) ==
    IF ~Published(r) THEN "Ignored"
    ELSE IF r.kind = PPS_CAPTUREASSERT THEN "Assert"
    ELSE IF r.kind = PPS_CAPTURECLEAR THEN "Clear"
    ELSE "Other"

----------------------------------------------------------------------------
\* C1: for every assert_falling_edge, capture_clear and level read, one
\* invocation of pps_gpio_irq_handler publishes Assert exactly when (High
\* and not assert_falling_edge) or (Low and assert_falling_edge), Clear
\* exactly when the level is the opposite one and capture_clear is set, and
\* nothing exactly when the level is the opposite one and capture_clear is
\* not set.
C1_ClassifierTable ==
    \A i \in 1..Len(hist) :
        LET r   == hist[i]
            afe == platform_data.assert_falling_edge
            cc  == platform_data.capture_clear
            primary == (r.level = 1 /\ ~afe) \/ (r.level = 0 /\ afe)
        IN  Sound(r) =>
              /\ r.level \in {0, 1}
              /\ Outcome(r) \in {"Assert", "Clear", "Ignored"}
              /\ (Outcome(r) = "Assert")  <=> primary
              /\ (Outcome(r) = "Clear")   <=> (~primary /\ cc)
              /\ (Outcome(r) = "Ignored") <=> (~primary /\ ~cc)

\* One session in which an edge was dropped and a later one reported as
\* Assert.
C1_Witness ==
    \E i, j \in 1..Len(hist) :
        /\ i < j
        /\ Sound(hist[i]) /\ Outcome(hist[i]) = "Ignored"
        /\ Sound(hist[j]) /\ Outcome(hist[j]) = "Assert"

\* C2: in every invocation of the handler the clock is read first: before
\* the level is read, before any branch and before any publish; and the
\* timestamp given to the consumer is the one captured in that invocation.
C2_TimestampFirst ==
    /\ rising_edge # NoVal => ts # NoTs
    /\ h_pc = "branch" => ts # NoTs
    /\ \A i \in 1..Len(hist) : hist[i].ts # NoTs /\ hist[i].ts <= clock
    /\ \A j \in 1..Len(sink) :
          \E i \in 1..Len(hist) :
              hist[i].n = sink[j].n /\ hist[i].ts = sink[j].ts

\* The handler is about to branch with a timestamp older than the clock:
\* time passed between the capture and the level read.
C2_Witness ==
    /\ h_pc = "branch"
    /\ InfoValid
    /\ ts # NoTs
    /\ ts < clock

----------------------------------------------------------------------------
\* The errors pps_gpio_probe returns.
ProbeErrors == {"ENODEV", "EINVAL", "ENOMEM"}

\* pps_gpio_probe has returned an error and the driver core has released
\* the device-managed resources.
ProbeHasFailed == pc = "unbound" /\ probe_ret \in ProbeErrors

\* The number of handlers registered for the IRQ of the line.
Handlers == IF irq_action = NULL THEN 0 ELSE 1

\* C3: every start-time failure leaves no resources held: when
\* pps_gpio_probe returns an error, whatever the step that failed, the GPIO
\* line is not held, no PPS source and no IRQ handler are registered and
\* no session memory remains allocated.
C3_FailedProbeHoldsNothing ==
    ProbeHasFailed =>
        /\ ~gpio_held
        /\ pps_source = NULL
        /\ irq_action = NULL
        /\ data_mem # "allocated"

\* C4: no handler invocation runs, reads the session data or publishes
\* after the PPS source has been unregistered or the session data freed.
C4_NoHandlerAfterRelease ==
    h_pc # "idle" => (pps_source # NULL /\ data_mem = "allocated")

\* C5: when pps_gpio_remove of an Active session has completed, with the
\* device-managed resources released, the GPIO line is no longer held, the
\* IRQ handler is no longer registered, the PPS source is unregistered and
\* the session memory is freed.
C5_RemoveReleasesAll ==
    (pc = "unbound" /\ remove_ret = "0" /\ nremoves = 1) =>
        /\ ~gpio_held
        /\ irq_action = NULL
        /\ pps_source = NULL
        /\ data_mem = "freed"

\* C6: a second pps_gpio_remove on a session that is already Inactive
\* produces no error, dereferences no released or missing session data,
\* and releases nothing a second time.
C6_SecondRemoveHarmless ==
    nremoves >= 2 =>
        /\ fault = "none"
        /\ pc # "oops"
        /\ unreg_calls <= 1
        /\ kfree_calls <= 1

\* C7: the trigger edges requested for the IRQ are derived from the
\* configuration: the primary edge (falling if assert_falling_edge, else
\* rising) is always requested and the complementary edge is requested if
\* and only if capture_clear is set.
C7_TriggerEdges ==
    irq_action # NULL =>
        LET afe == platform_data.assert_falling_edge
            cc  == platform_data.capture_clear
            primary == IF afe THEN "falling" ELSE "rising"
            complementary == IF afe THEN "rising" ELSE "falling"
        IN  /\ irq_action.flags \subseteq {"rising", "falling"}
            /\ primary \in irq_action.flags
            /\ complementary \in irq_action.flags <=> cc
            /\ cc => irq_action.flags = {"rising", "falling"}
            /\ ~cc => irq_action.flags = {primary}

\* A handler registered for both edges under capture_clear, the falling
\* edge being the primary one.
C7_Witness ==
    /\ irq_action # NULL
    /\ platform_data.capture_clear
    /\ platform_data.assert_falling_edge
    /\ irq_action.flags = {"rising", "falling"}

\* C8: whenever pps_gpio_probe returns an error, a failure of the IRQ
\* request included, the number of handlers registered for the line is the
\* same as before the call, zero for a fresh line.
C8_FailedProbeNoHandler ==
    (pc \in {"p_failed", "unbound"} /\ probe_ret \in ProbeErrors) =>
        /\ Handlers = irq_before
        /\ Handlers = 0

\* The probe failed at the IRQ request: the PPS source it had registered
\* is unregistered again and the session data freed.
C8_Witness ==
    /\ ProbeHasFailed
    /\ probe_ret = "EINVAL"
    /\ data.pdata = "pdata"
    /\ unreg_calls = 1
    /\ nremoves = 0

\* C9: the events published to the consumer appear in the order of the
\* notifications that produced them: the published sequence is the
\* sequence of notifications, in arrival order, with the Ignored ones
\* removed; nothing reordered, nothing duplicated.
C9_ArrivalOrder ==
    /\ \A i, j \in 1..Len(hist) : i < j => hist[i].n < hist[j].n
    /\ \A i, j \in 1..Len(sink) : i < j => sink[i].n < sink[j].n
    /\ \A i \in 1..Len(hist) :
          LET r == hist[i]
              want == TableKind(platform_data.assert_falling_edge,
                                platform_data.capture_clear, r.level)
          IN  Sound(r) =>
                /\ Published(r) <=> want # "Ignored"
                /\ Published(r) => Outcome(r) = want
                /\ r.pub = "ok" <=>
                      \E j \in 1..Len(sink) :
                          sink[j] = [n |-> r.n, ts |-> r.ts, event |-> r.kind]
    /\ \A j \in 1..Len(sink) :
          \E i \in 1..Len(hist) : hist[i].n = sink[j].n /\ hist[i].pub = "ok"

\* Two notifications handled in a live session, the first dropped as
\* Ignored, the second published and alone in the sink.
C9_Witness ==
    /\ Len(hist) = 2
    /\ Sound(hist[1]) /\ ~Published(hist[1])
    /\ Sound(hist[2]) /\ hist[2].pub = "ok"
    /\ hist[1].n < hist[2].n
    /\ sink = <<[n |-> hist[2].n, ts |-> hist[2].ts, event |-> hist[2].kind]>>

\* C10: a failed publish of event k leaves the session as it was
\* (configuration, registrations, memory), the handler returns normally,
\* and notification k+1 is timestamped, classified and its publish
\* attempted exactly as if event k had succeeded.
C10_FailureIsolated ==
    /\ [][(Len(hist') = Len(hist) + 1 /\ Last(hist').pub = "fail") =>
             (UNCHANGED session_vars /\ h_pc' = "idle" /\ fault' = fault
              /\ irq_pending' = irq_pending)]_vars
    /\ [](\A k \in 1..(Len(hist) - 1) :
            LET r == hist[k + 1]
                want == TableKind(platform_data.assert_falling_edge,
                                  platform_data.capture_clear, r.level)
            IN  (hist[k].pub = "fail" /\ Sound(r)) =>
                  /\ r.ts # NoTs
                  /\ r.n > hist[k].n
                  /\ Outcome(r) = want
                  /\ Published(r) <=> want # "Ignored")

\* The publish of one event failed and the next notification was handled
\* and its event taken, in a session still Active.
C10_Witness ==
    /\ pc = "bound"
    /\ irq_action # NULL
    /\ \E k \in 1..(Len(hist) - 1) :
          /\ hist[k].pub = "fail"
          /\ Sound(hist[k + 1])
          /\ hist[k + 1].pub = "ok"

----------------------------------------------------------------------------
\* The transition the configuration makes the primary one.
PrimaryDir == IF platform_data.assert_falling_edge THEN "falling" ELSE "rising"

\* The level a transition leaves the line at.
LevelAfter(dir) == IF dir = "rising" THEN 1 ELSE 0

\* C11: every notification raised by the primary transition (rising unless
\* assert_falling_edge) is published as Assert, and a notification raised
\* by the complementary transition is never published as Assert, in every
\* schedule, the line changing again before the handler reads it included.
C11_PrimaryEdgeAlwaysAssert ==
    \A i \in 1..Len(hist) :
        LET r == hist[i]
        IN  Sound(r) =>
              /\ r.dir = PrimaryDir => (Outcome(r) = "Assert" /\ Published(r))
              /\ r.dir # PrimaryDir => Outcome(r) # "Assert"

\* C11 as amended: the handler names the edge by the level it reads.  When
\* the line has not changed again between the notification and the read,
\* the level read is the one the transition left the line at; and a
\* notification whose level read is that one is published as Assert
\* exactly when it was raised by the primary transition.
C11_PrimaryEdgeAssertWhenLevelSettled ==
    /\ [][(h_pc = "get_value" /\ h_pc' # h_pc /\ InfoValid
           /\ nedges = h_edge.n)
          => rising_edge' = LevelAfter(h_edge.dir)]_vars
    /\ [](\A i \in 1..Len(hist) :
            LET r == hist[i]
            IN  (Sound(r) /\ r.level = LevelAfter(r.dir)) =>
                  /\ r.dir = PrimaryDir =>
                        (Outcome(r) = "Assert" /\ Published(r))
                  /\ r.dir # PrimaryDir => Outcome(r) # "Assert")

\* A primary and a complementary transition each handled with the line
\* still at the level the transition left it at: the first published as
\* Assert, the second as Clear.
C11_Witness ==
    \E i, j \in 1..Len(hist) :
        /\ Sound(hist[i]) /\ hist[i].dir = PrimaryDir
        /\ hist[i].level = LevelAfter(hist[i].dir)
        /\ Outcome(hist[i]) = "Assert"
        /\ Sound(hist[j]) /\ hist[j].dir # PrimaryDir
        /\ hist[j].level = LevelAfter(hist[j].dir)
        /\ Outcome(hist[j]) = "Clear"

----------------------------------------------------------------------------
\* The number of events in the sink for notification n.
SinkCount(n) == Cardinality({j \in 1..Len(sink) : sink[j].n = n})

\* C12: every handler invocation runs to completion and publishes at most
\* once: once started it reaches its return, having called pps_event
\* exactly once when the edge classifies as Assert or Clear and not at all
\* when it classifies as Ignored; a failed publish is retried neither in
\* the invocation nor by a later one.
C12_CompletesPublishingOnce ==
    /\ (h_pc # "idle") ~> (h_pc = "idle")
    /\ [][(h_pc # "idle" /\ h_pc' = "idle") =>
            (hist' = Append(hist, Last(hist')) /\ Last(hist').n = h_edge.n)]_vars
    /\ [](\A i \in 1..Len(hist) :
            LET r == hist[i]
                want == TableKind(platform_data.assert_falling_edge,
                                  platform_data.capture_clear, r.level)
            IN  /\ \A j \in 1..Len(hist) : hist[j].n = r.n => j = i
                /\ SinkCount(r.n) = (IF r.pub = "ok" THEN 1 ELSE 0)
                /\ Sound(r) => (Published(r) <=> want \in {"Assert", "Clear"}))

\* A publish has failed, its invocation has returned, a later notification
\* has been handled and published once, and the sink holds nothing for the
\* failed one.
C12_Witness ==
    /\ h_pc = "idle"
    /\ \E i, j \in 1..Len(hist) :
          /\ i < j
          /\ hist[i].pub = "fail"
          /\ SinkCount(hist[i].n) = 0
          /\ Sound(hist[j]) /\ hist[j].pub = "ok"
          /\ SinkCount(hist[j].n) = 1

----------------------------------------------------------------------------
\* C13: the handler changes no session state: across its invocations the
\* configuration (assert_falling_edge, capture_clear, gpio_pin), the
\* session's irq number and its consumer handle are unchanged, and what an
\* invocation does depends only on the level it read and the
\* configuration, not on any earlier notification.
C13_HandlerKeepsNoState ==
    /\ [][h_pc' # h_pc =>
            UNCHANGED <<platform_data, of_node, data, data_mem, drvdata,
                        irq_action, pps_source, gpio_held>>]_vars
    /\ [](\A i, j \in 1..Len(hist) :
            (Sound(hist[i]) /\ Sound(hist[j])
             /\ hist[i].level = hist[j].level) =>
                /\ hist[i].kind = hist[j].kind
                /\ Published(hist[i]) <=> Published(hist[j]))

\* Three notifications handled in one session: the first and the third
\* read the same level and are reported alike, the second read the other
\* level and is reported differently.
C13_Witness ==
    /\ Len(hist) = 3
    /\ \A i \in 1..3 : Sound(hist[i]) /\ Published(hist[i])
    /\ hist[1].level = hist[3].level
    /\ hist[1].kind = hist[3].kind
    /\ hist[2].level # hist[1].level
    /\ hist[2].kind # hist[1].kind

----------------------------------------------------------------------------
\* The resources a session holds.
resource_vars == <<gpio_held, pps_source, irq_action, data_mem, data, drvdata>>

\* C14: a start attempt with missing configuration (no platform data, or
\* the device-tree lookup returns none) fails with an error before any
\* resource is touched: the GPIO is not requested and no PPS source and no
\* IRQ handler are registered.
C14_MissingConfigTouchesNothing ==
    /\ [][(pc = "unbound" /\ pc' = "p_match") => UNCHANGED resource_vars]_vars
    /\ [][(pc = "p_match" /\ pc' # pc) =>
            IF platform_data' = NULL
            THEN /\ probe_ret' = "ENODEV"
                 /\ pc' = "p_failed"
                 /\ UNCHANGED resource_vars
            ELSE pc' = "p_gpio_request" /\ probe_ret' = "none"]_vars
    /\ [][(pc = "p_failed" /\ probe_ret = "ENODEV" /\ pc' # pc) =>
            (pc' = "unbound" /\ UNCHANGED resource_vars)]_vars
    /\ [](probe_ret = "ENODEV" => platform_data = NULL)
    /\ [](pc \in {"p_gpio_request", "p_direction", "p_to_irq", "p_kzalloc",
                  "p_register", "p_fields", "p_request_irq", "p_drvdata"}
            => platform_data # NULL)

\* A probe of a device-tree device whose lookup returned no configuration
\* has failed with -ENODEV, with nothing held.
C14_Witness ==
    /\ ProbeHasFailed
    /\ probe_ret = "ENODEV"
    /\ of_node # NULL
    /\ platform_data = NULL
    /\ ~gpio_held
    /\ pps_source = NULL
    /\ irq_action = NULL

----------------------------------------------------------------------------
\* C15: a session can be restarted.  A probe that follows a successful
\* probe and a pps_gpio_remove of the same device, in which no host call
\* failed on a free resource, returns 0; its gpio_request is not refused
\* because the pin is still requested.
C15_RestartSucceeds ==
    /\ (restart /\ pc = "p_gpio_request") => ~gpio_held
    /\ (restart /\ ~host_refused /\ probe_ret # "none") => probe_ret = "0"

----------------------------------------------------------------------------
\* The transition that is not the primary one.
ComplementaryDir == IF platform_data.assert_falling_edge THEN "rising"
                                                         ELSE "falling"

\* The PPS source has the CAPTURECLEAR capability and default parameter and
\* the IRQ is requested for the complementary edge.
ClearEnabled ==
    /\ pps_source # NULL
    /\ irq_action # NULL
    /\ PPS_CAPTURECLEAR \in pps_source.mode
    /\ PPS_CAPTURECLEAR \in pps_source.params
    /\ ComplementaryDir \in irq_action.flags

\* C16: the three uses of capture_clear agree.  While the PPS source and
\* the IRQ handler are registered, the source has the CAPTURECLEAR
\* capability, has it as default parameter, and the IRQ is requested for
\* the complementary edge, each exactly when capture_clear is set; in an
\* Active session every Clear event the PPS core has accepted was
\* published with all three enabled, and with capture_clear false there is
\* none.
C16_ClearUsesAgree ==
    /\ (pps_source # NULL /\ irq_action # NULL) =>
          /\ platform_data.capture_clear <=>
                PPS_CAPTURECLEAR \in pps_source.mode
          /\ platform_data.capture_clear <=>
                PPS_CAPTURECLEAR \in pps_source.params
          /\ platform_data.capture_clear <=>
                ComplementaryDir \in irq_action.flags
    /\ pc \in {"p_drvdata", "bound"} =>
          \A i \in 1..Len(sink) :
             sink[i].event = PPS_CAPTURECLEAR =>
                (ClearEnabled /\ platform_data.capture_clear)
    /\ \A i \in 1..Len(hist) :
          (Sound(hist[i]) /\ ~platform_data.capture_clear) =>
             hist[i].kind # PPS_CAPTURECLEAR

\* An Active session with capture_clear set has published a Clear event.
C16_Witness ==
    /\ pc = "bound"
    /\ platform_data.capture_clear
    /\ ClearEnabled
    /\ \E i \in 1..Len(sink) : sink[i].event = PPS_CAPTURECLEAR

----------------------------------------------------------------------------
\* C17: the handler never sees a partially initialised session during
\* probe.  At the step that registers the IRQ handler, and from then until
\* probe returns, the session data is allocated with data->pps and
\* data->pdata set and the PPS source registered; a notification handled
\* in that window is classified from the configuration and, when it
\* reports an event, hands it to the registered source.
C17_HandlerSeesCompleteSession ==
    /\ [][(irq_action = NULL /\ irq_action' # NULL) =>
            /\ data_mem' = "allocated"
            /\ data'.pps # NullPtr
            /\ data'.pdata # NullPtr
            /\ pps_source' # NULL
            /\ irq_action'.dev_id = "data"]_vars
    /\ [](pc = "p_drvdata" =>
            /\ irq_action # NULL
            /\ InfoValid
            /\ data.pps # NullPtr
            /\ pps_source # NULL
            /\ \A i \in 1..Len(hist) :
                  /\ Sound(hist[i])
                  /\ hist[i].kind = Classify(hist[i].level, platform_data)
                  /\ hist[i].pub \in (IF hist[i].kind = "none" THEN {"none"}
                                      ELSE PublishOutcomes))

\* Before probe returns, a notification has been handled and its event
\* accepted by the PPS core.
C17_Witness ==
    /\ pc = "p_drvdata"
    /\ Len(hist) >= 1
    /\ hist[1].pub = "ok"
    /\ sink # <<>>

----------------------------------------------------------------------------
\* C18: a configuration built by of_get_pps_gpio_pdata has capture_clear
\* false whatever properties the node carries, and assert_falling_edge
\* true exactly when the node has the "assert-falling-edge" property; its
\* session requests the IRQ for the primary edge only, registers a source
\* without the CAPTURECLEAR capability, and publishes Assert events only.
C18_DeviceTreeNeverClear ==
    (of_node # NULL /\ platform_data # NULL) =>
       /\ ~platform_data.capture_clear
       /\ platform_data.assert_falling_edge <=>
             "assert-falling-edge" \in of_node.props
       /\ irq_action # NULL => irq_action.flags = {PrimaryDir}
       /\ pps_source # NULL => PPS_CAPTURECLEAR \notin pps_source.mode
       /\ \A i \in 1..Len(sink) : sink[i].event = PPS_CAPTUREASSERT
       /\ \A i \in 1..Len(hist) :
             Sound(hist[i]) => hist[i].kind # PPS_CAPTURECLEAR

\* A session of a node that carries a "capture-clear" property has seen
\* the line go both ways, handled every notification and published an
\* Assert event, and nothing for the complementary edge.
C18_Witness ==
    /\ of_node # NULL
    /\ "capture-clear" \in of_node.props
    /\ pc = "bound"
    /\ nedges = 3
    /\ irq_pending = <<>>
    /\ h_pc = "idle"
    /\ Len(hist) < nedges
    /\ \E i \in 1..Len(sink) : sink[i].event = PPS_CAPTUREASSERT

====
